---- MODULE Spec2Model ----
(***************************************************************************)
(* A model of axlearn/common/pipeline.py: the layout transforms            *)
(* transpose_to_pipeline_stage_inputs / transpose_from_pipeline_stage_     *)
(* outputs and Pipeline._run, the GPipe loop of M+N-1 timesteps over N     *)
(* stages and M microbatches.                                              *)
(*                                                                         *)
(* Tensors are functions over 0-based index ranges: a leaf of shape [R]    *)
(* is a function on 0..R-1, a leaf of shape [R, C] a function on 0..R-1    *)
(* of functions on 0..C-1.  The trailing dimensions (microbatch_size, ...) *)
(* of a leaf are carried by every operation unchanged and are modelled as  *)
(* one opaque element.  An element is a tuple of integers, so that the     *)
(* stage computation `fn` can be modelled as an uninterpreted function     *)
(* that builds the term of its arguments.                                  *)
(***************************************************************************)
EXTENDS Integers, Sequences, FiniteSets, TLC

\* Largest number of stages (cfg.num_layers) explored.
MaxN == 3
\* Largest number of microbatches (leading dimension of carry, and
\* cfg.num_microbatches) explored.
MaxM == 3
\* Inputs are labelled arrays whose labels start at 0..MaxBase.
MaxBase == 1

\* The largest batch size given to _to_microbatches.
MaxBatch == 12

VARIABLES
    num_layers,        \* cfg.num_layers (self._num_stages)
    num_microbatches,  \* cfg.num_microbatches (self._num_microbatches)
    fn,                \* which stage computation the caller passes to _run
    state,             \* layer_context.state: the stacked parameters, [N]
    carry,             \* argument carry of _run: its first leaf, shape [M]
    carry_ndims,       \* ndim of every leaf of carry, in tree_leaves order
    carry_arg,         \* what the name carry of _run is bound to: None, a tree, or {}
    xs,                \* argument xs of _run, one leaf of shape [N, M]
    pc,                \* position inside _run
    raised,            \* where the ValueError that ended the run was raised
    m,                 \* local m of _run
    n,                 \* local n of _run
    per_stage_inputs,  \* [M, N]
    padded_xs,         \* [M+N-1, N]
    prng_keys,         \* [M+N-1, N]
    t,                 \* carry_in["t"] of the scan
    carry_output_t_1,  \* carry_in["carry_output_t_1"] of the scan, [N]
    scan_ys,           \* outputs of scan_fn stacked so far: carry and y, [., N]
    calls,             \* what each executed scan_fn invocation read
    final_carry,       \* Output.carry
    ys,                \* Output.ys
    output_collection, \* this_output_collection after the run
    pending,           \* vmap_out of the stages that have run in this timestep
    inputs,            \* argument of _to_microbatches: one leaf of shape [B]
    microbatches,      \* what _to_microbatches returned, [M, B/M]
    merged,            \* what _from_microbatches returned, [B]
    alt                \* the same run with other values in the bubble slots

vars == <<num_layers, num_microbatches, fn, state, carry, carry_ndims, carry_arg, xs,
          pc, raised, m, n, per_stage_inputs, padded_xs, prng_keys, t, carry_output_t_1,
          scan_ys, calls, final_carry, ys, output_collection, pending, alt,
          inputs, microbatches, merged>>

----------------------------------------------------------------------------
(* Array primitives (jax.numpy / jax.lax) on 0-based functions.            *)

Range0(k) == 0 .. (k - 1)

Len0(x) == Cardinality(DOMAIN x)

\* The value jnp.pad and jnp.zeros fill with.
Zero == <<0>>

\* The value that occupies the bubble slots of the alternative run.
Junk == <<-9>>

\* jnp.pad(x, [(before, after)]) along the leading axis of a 1-D array.
jnp_pad(x, before, after) ==
    [k \in Range0(before + Len0(x) + after) |->
        IF k >= before /\ k < before + Len0(x) THEN x[k - before] ELSE Zero]

\* jnp.reshape(x, [-1]) of a 2-D array with `cols` columns: row-major order.
jnp_flatten(x, cols) ==
    [k \in Range0(Len0(x) * cols) |-> x[k \div cols][k % cols]]

\* jnp.reshape(x, [rows, cols]) of a 1-D array: row-major order.
jnp_reshape(x, rows, cols) ==
    [i \in Range0(rows) |-> [j \in Range0(cols) |-> x[i * cols + j]]]

\* jnp.transpose(x, [1, 0]) of a 2-D array with `cols` columns.
jnp_transpose(x, cols) ==
    [j \in Range0(cols) |-> [i \in Range0(Len0(x)) |-> x[i][j]]]

\* x[lo:hi] of a 1-D array.
jnp_slice(x, lo, hi) == [k \in Range0(hi - lo) |-> x[lo + k]]

\* x[k] for a traced index k: JAX clamps an out-of-bounds index.
jnp_index(x, k) == x[IF k > Len0(x) - 1 THEN Len0(x) - 1 ELSE k]

\* x with v appended along the leading axis (the stacking that scan does).
Stack(x, v) == [k \in Range0(Len0(x) + 1) |-> IF k < Len0(x) THEN x[k] ELSE v]

Empty == [k \in Range0(0) |-> Zero]

----------------------------------------------------------------------------
(* The layout transforms.                                                  *)

\* transpose_to_pipeline_stage_inputs without the skew: the M axis is padded
\* to M + N - 1 directly and nothing is dropped, so that x'[t, i] == x[i, t].
transpose_to_unskewed(x) ==
    LET xn == Len0(x)
        xm == Len0(x[0])
        x1 == [i \in Range0(xn) |-> jnp_pad(x[i], 0, xn - 1)]
    IN  jnp_transpose(x1, xm + xn - 1)

transpose_to_pipeline_stage_inputs(x) ==
    LET xn == Len0(x)
        xm == Len0(x[0])
        \* [N, M + N]
        x1 == [i \in Range0(xn) |-> jnp_pad(x[i], 0, xn)]
        \* [N * (M + N)]
        x2 == jnp_flatten(x1, xm + xn)
        \* [N * (M + N - 1)]
        x3 == jnp_slice(x2, 0, Len0(x2) - xn)
        \* [N, M + N - 1]
        x4 == jnp_reshape(x3, xn, xm + xn - 1)
    IN  \* [M + N - 1, N]
        jnp_transpose(x4, xm + xn - 1)

\* transpose_from_pipeline_stage_outputs without the skew: x'[i, j] == x[j, i].
transpose_from_unskewed(x) ==
    LET xt == Len0(x)
        xn == Len0(x[0])
        xm == xt - xn + 1
        x1 == jnp_transpose(x, xn)
    IN  [i \in Range0(xn) |-> jnp_slice(x1[i], 0, xm)]

\* transpose_from_pipeline_stage_outputs with m taken as t - n.
transpose_from_short(x) ==
    LET xt == Len0(x)
        xn == Len0(x[0])
        xm == xt - xn
        x1 == jnp_transpose(x, xn)
        x2 == jnp_flatten(x1, xt)
        x3 == jnp_pad(x2, 0, xn)
        x4 == jnp_reshape(x3, xn, xm + xn)
    IN  [i \in Range0(xn) |-> jnp_slice(x4[i], 0, xm)]

\* transpose_from_pipeline_stage_outputs without the first transpose.
transpose_from_untransposed(x) ==
    LET xt == Len0(x)
        xn == Len0(x[0])
        xm == xt - xn + 1
        x2 == jnp_flatten(x, xn)
        x3 == jnp_pad(x2, 0, xn)
        x4 == jnp_reshape(x3, xn, xm + xn)
    IN  [i \in Range0(xn) |-> jnp_slice(x4[i], 0, xm)]

transpose_from_pipeline_stage_outputs(x) ==
    LET xt == Len0(x)
        xn == Len0(x[0])
        xm == xt - xn + 1
        \* [N, M+N-1]
        x1 == jnp_transpose(x, xn)
        \* [N * (M+N-1)]
        x2 == jnp_flatten(x1, xt)
        \* [N * (M+N)]
        x3 == jnp_pad(x2, 0, xn)
        \* [N, M+N]
        x4 == jnp_reshape(x3, xn, xm + xn)
    IN  \* [N, M]
        [i \in Range0(xn) |-> jnp_slice(x4[i], 0, xm)]

----------------------------------------------------------------------------
(* The stage computation passed to _run, and its per-stage invocation.     *)

\* The kinds of stage computation explored: "term" builds the term of its
\* arguments (an uninterpreted function of the stage's parameters, its
\* PRNG key, the carry and x), "identity" passes the carry through and
\* emits it as y, "echo" passes the carry through and emits x as y.
FnKinds == {"term", "identity", "echo"}

fn_apply(kind, state_n, prng_key_tn, carry_tn, x_tn) ==
    CASE kind = "identity" -> [carry |-> carry_tn, y |-> carry_tn]
      [] kind = "echo"     -> [carry |-> carry_tn, y |-> x_tn]
      [] OTHER ->
            [carry |-> carry_tn \o <<state_n, prng_key_tn>> \o x_tn,
             y     |-> <<-1>> \o carry_tn \o <<state_n, prng_key_tn>> \o x_tn]

\* What an invocation of the layer adds to output_collection_tn: a summary, a
\* module output and a state update, each a term of the invocation's arguments.
fn_outputs(state_n, prng_key_tn, carry_tn, x_tn) ==
    [summaries      |-> <<-2, state_n, prng_key_tn>> \o carry_tn \o x_tn,
     module_outputs |-> <<-3, state_n, prng_key_tn>> \o carry_tn \o x_tn,
     state_updates  |-> <<-4, state_n, prng_key_tn>> \o carry_tn \o x_tn]

vmap_fn(state_n, prng_key_tn, carry_tn, x_tn) ==
    LET r == fn_apply(fn, state_n, prng_key_tn, carry_tn, x_tn)
    IN  [carry |-> r.carry, y |-> r.y,
         output_collection |-> fn_outputs(state_n, prng_key_tn, carry_tn, x_tn)]

----------------------------------------------------------------------------
(* The helpers of Pipeline._run.                                           *)

\* [M] -> [M, N]: only slot 0 of the stage axis is populated.
pad_carry(v_carry, nn) ==
    [j \in Range0(Len0(v_carry)) |->
        jnp_pad([k \in Range0(1) |-> v_carry[j]], 0, nn - 1)]

\* The keys of a loop of m + n - 2 timesteps.
split_prng_keys_short(mm, nn) ==
    jnp_reshape([k \in Range0((mm + nn - 2) * nn) |-> k], mm + nn - 2, nn)

\* jax.random.split(self.prng_key, (m + n - 1) * n) reshaped to [m+n-1, n]:
\* the keys are pairwise distinct and are named by their position.
split_prng_keys(mm, nn) ==
    jnp_reshape([k \in Range0((mm + nn - 1) * nn) |-> k], mm + nn - 1, nn)

\* _is_valid_stage with an inclusive bound on t - stage_id.
_is_valid_stage_inclusive(tt) ==
    [stage_id \in Range0(num_layers) |->
        stage_id <= tt /\ tt - stage_id <= num_microbatches]

\* _is_valid_stage with stage_id < t.
_is_valid_stage_strict(tt) ==
    [stage_id \in Range0(num_layers) |->
        stage_id < tt /\ tt - stage_id < num_microbatches]

_is_valid_stage(tt) ==
    [stage_id \in Range0(num_layers) |->
        stage_id <= tt /\ tt - stage_id < num_microbatches]

\* _compute_carry_input that indexes the padded carry by t instead of t % m.
_compute_carry_input_unwrapped(v_per_stage_inputs, v_carry_output_t_1, tt) ==
    LET v_input_t == jnp_index(v_per_stage_inputs, tt)
        ndim0     == Len0(v_carry_output_t_1)
        shifted   == jnp_slice(jnp_pad(v_carry_output_t_1, 1, 0), 0, ndim0)
    IN  [k \in Range0(ndim0) |-> IF k = 0 THEN v_input_t[k] ELSE shifted[k]]

\* _compute_carry_input without the shift along the stage axis: stage k > 0
\* is fed its own previous output.
_compute_carry_input_unshifted(v_per_stage_inputs, v_carry_output_t_1, tt) ==
    LET v_input_t == jnp_index(v_per_stage_inputs, tt % num_microbatches)
        ndim0     == Len0(v_carry_output_t_1)
    IN  [k \in Range0(ndim0) |->
            IF k = 0 THEN v_input_t[k] ELSE v_carry_output_t_1[k]]

_compute_carry_input(v_per_stage_inputs, v_carry_output_t_1, tt) ==
    LET v_input_t == jnp_index(v_per_stage_inputs, tt % num_microbatches)
        ndim0     == Len0(v_carry_output_t_1)
        shifted   == jnp_slice(jnp_pad(v_carry_output_t_1, 1, 0), 0, ndim0)
    IN  [k \in Range0(ndim0) |-> IF k = 0 THEN v_input_t[k] ELSE shifted[k]]

\* extract_outputs that takes the last stage's first M records instead of
\* its last M.
extract_outputs_head(x, nn) ==
    LET cols == Len0(x[0])
        rows == jnp_slice(x, 0, Len0(x) - (nn - 1))
    IN  [k \in Range0(Len0(rows)) |-> jnp_slice(rows[k], cols - 1, cols)[0]]

\* extract_outputs that slices the last stage at the final timestep only.
extract_outputs_final_step(x, nn) ==
    LET cols == Len0(x[0])
        rows == jnp_slice(x, Len0(x) - 1, Len0(x))
    IN  [k \in Range0(Len0(rows)) |-> jnp_slice(rows[k], cols - 1, cols)[0]]

\* extract_outputs that slices stage 0 instead of stage N-1.
extract_outputs_first_stage(x, nn) ==
    LET rows == jnp_slice(x, nn - 1, Len0(x))
    IN  [k \in Range0(Len0(rows)) |-> jnp_slice(rows[k], 0, 1)[0]]

\* jnp.squeeze(jax.lax.slice(x, [n - 1, x.shape[1] - 1], x.shape), 1)
extract_outputs(x, nn) ==
    LET cols == Len0(x[0])
        rows == jnp_slice(x, nn - 1, Len0(x))
    IN  [k \in Range0(Len0(rows)) |-> jnp_slice(rows[k], cols - 1, cols)[0]]

\* microbatch_summaries in which every child holds the entry of the last
\* (i, j) of the loops.
microbatch_summaries_last(v_summaries, nn, mm) ==
    [p \in Range0(nn) \X Range0(mm) |-> v_summaries[nn - 1][mm - 1]]

\* The summaries of the children "layer{i}/microbatch{j}", lines 438-446: the
\* child of (i, j) holds x[i, j] of every summary leaf x.
microbatch_summaries(v_summaries, nn, mm) ==
    [p \in Range0(nn) \X Range0(mm) |-> v_summaries[p[1]][p[2]]]

\* jax.vmap(vmap_fn)(state, prng_key_t, vmap_in, x_t)
vmap_out(v_state, prng_key_t, vmap_in, x_t) ==
    [i \in Range0(Len0(vmap_in)) |->
        vmap_fn(v_state[i], prng_key_t[i], vmap_in[i], x_t[i])]

\* The leaves of vmap_out["output_collection"], each of shape [N].
stack_outputs(out) ==
    [summaries      |-> [i \in DOMAIN out |-> out[i].output_collection.summaries],
     module_outputs |-> [i \in DOMAIN out |-> out[i].output_collection.module_outputs],
     state_updates  |-> [i \in DOMAIN out |-> out[i].output_collection.state_updates]]

\* jnp.where(mask, x, jax.lax.stop_gradient(x)) on the stacked parameters:
\* the value is x either way, and the gradient flows only where mask holds.
where_valid(mask, v_state) ==
    [i \in DOMAIN v_state |-> [value |-> v_state[i], stop_gradient |-> ~mask[i]]]

\* scan_fn that hands y instead of carry to the next timestep.
scan_fn_y_as_carry(carry_in, prng_key_t, x_t) ==
    LET tt      == carry_in.t
        vmap_in == _compute_carry_input(carry_in.per_stage_inputs,
                                        carry_in.carry_output_t_1, tt)
        v_state == where_valid(_is_valid_stage(tt), state)
        out     == vmap_out([i \in DOMAIN v_state |-> v_state[i].value],
                            prng_key_t, vmap_in, x_t)
    IN  [carry_out |-> [t |-> tt + 1,
                        carry_output_t_1 |-> [i \in DOMAIN out |-> out[i].y],
                        per_stage_inputs |-> carry_in.per_stage_inputs],
         ys_t      |-> [carry |-> [i \in DOMAIN out |-> out[i].carry],
                        y     |-> [i \in DOMAIN out |-> out[i].y],
                        output_collection |-> stack_outputs(out)],
         vmap_in   |-> vmap_in,
         state     |-> v_state,
         valid     |-> _is_valid_stage(tt)]

\* scan_fn that runs the stage computation on the valid stages only and
\* records zeros for the others.
scan_fn_skip_bubbles(carry_in, prng_key_t, x_t) ==
    LET tt      == carry_in.t
        vmap_in == _compute_carry_input(carry_in.per_stage_inputs,
                                        carry_in.carry_output_t_1, tt)
        v_state == where_valid(_is_valid_stage(tt), state)
        out     == vmap_out([i \in DOMAIN v_state |-> v_state[i].value],
                            prng_key_t, vmap_in, x_t)
        ran     == _is_valid_stage(tt)
    IN  [carry_out |-> [t |-> tt + 1,
                        carry_output_t_1 |->
                            [i \in DOMAIN out |-> IF ran[i] THEN out[i].carry ELSE Zero],
                        per_stage_inputs |-> carry_in.per_stage_inputs],
         ys_t      |-> [carry |-> [i \in DOMAIN out |->
                                          IF ran[i] THEN out[i].carry ELSE Zero],
                        y     |-> [i \in DOMAIN out |->
                                          IF ran[i] THEN out[i].y ELSE Zero],
                        output_collection |-> stack_outputs(out)],
         vmap_in   |-> vmap_in,
         state     |-> v_state,
         valid     |-> _is_valid_stage(tt)]

\* scan_fn that zeroes the row of per_stage_inputs it has read.
scan_fn_consuming_inputs(carry_in, prng_key_t, x_t) ==
    LET tt      == carry_in.t
        vmap_in == _compute_carry_input(carry_in.per_stage_inputs,
                                        carry_in.carry_output_t_1, tt)
        v_state == where_valid(_is_valid_stage(tt), state)
        out     == vmap_out([i \in DOMAIN v_state |-> v_state[i].value],
                            prng_key_t, vmap_in, x_t)
    IN  [carry_out |-> [t |-> tt + 1,
                        carry_output_t_1 |-> [i \in DOMAIN out |-> out[i].carry],
                        per_stage_inputs |->
                            [j \in DOMAIN carry_in.per_stage_inputs |->
                                IF j = tt % num_microbatches
                                THEN [k \in DOMAIN carry_in.per_stage_inputs[j] |-> Zero]
                                ELSE carry_in.per_stage_inputs[j]]],
         ys_t      |-> [carry |-> [i \in DOMAIN out |-> out[i].carry],
                        y     |-> [i \in DOMAIN out |-> out[i].y],
                        output_collection |-> stack_outputs(out)],
         vmap_in   |-> vmap_in,
         state     |-> v_state,
         valid     |-> _is_valid_stage(tt)]

\* scan_fn(carry_in, xs_t) with xs_t = (prng_key_t, x_t): the next loop state
\* and the record of this timestep.  vmap_in and valid are the values that
\* the invocation computes on the way (lines 351 and 356).
scan_fn(carry_in, prng_key_t, x_t) ==
    LET tt      == carry_in.t
        vmap_in == _compute_carry_input(carry_in.per_stage_inputs,
                                        carry_in.carry_output_t_1, tt)
        v_state == where_valid(_is_valid_stage(tt), state)
        out     == vmap_out([i \in DOMAIN v_state |-> v_state[i].value],
                            prng_key_t, vmap_in, x_t)
    IN  [carry_out |-> [t |-> tt + 1,
                        carry_output_t_1 |-> [i \in DOMAIN out |-> out[i].carry],
                        per_stage_inputs |-> carry_in.per_stage_inputs],
         ys_t      |-> [carry |-> [i \in DOMAIN out |-> out[i].carry],
                        y     |-> [i \in DOMAIN out |-> out[i].y],
                        output_collection |-> stack_outputs(out)],
         vmap_in   |-> vmap_in,
         state     |-> v_state,
         valid     |-> _is_valid_stage(tt)]

\* The initial loop state of the scan.
state_t0(nn, v_per_stage_inputs) ==
    [t |-> 0,
     carry_output_t_1 |-> [i \in Range0(nn) |-> Zero],
     per_stage_inputs |-> v_per_stage_inputs]

----------------------------------------------------------------------------
(* The alternative run: the same code on a state whose bubble slots hold   *)
(* Junk instead of the values the code puts there.                         *)

\* (stage i, timestep tt) carries a microbatch of an M = mm run.
InBand(i, tt, mm) == i <= tt /\ tt - i < mm

AltPerStageInputs(p) ==
    [j \in DOMAIN p |-> [k \in DOMAIN p[j] |-> IF k = 0 THEN p[j][k] ELSE Junk]]

AltPaddedXs(p, mm) ==
    [tt \in DOMAIN p |->
        [i \in DOMAIN p[tt] |-> IF InBand(i, tt, mm) THEN p[tt][i] ELSE Junk]]

AltOut(v, tt, mm) ==
    [i \in DOMAIN v |-> IF InBand(i, tt, mm) THEN v[i] ELSE Junk]

----------------------------------------------------------------------------
(* The run.                                                                *)

\* A leaf of shape [rows, cols] with pairwise distinct entries base, base+1, ...
Labelled(rows, cols, base) ==
    [i \in Range0(rows) |-> [j \in Range0(cols) |-> <<base + i * cols + j>>]]

NoOutputs == [summaries |-> Empty, module_outputs |-> Empty, state_updates |-> Empty]

NoAlt == [per_stage_inputs |-> Empty, padded_xs |-> Empty,
          carry_output_t_1 |-> Empty, scan_ys |-> [carry |-> Empty, y |-> Empty],
          vmap_in |-> Empty, final_carry |-> Empty, ys |-> Empty]

\* The leaves of the carry trees explored, by ndim: no leaf, one leaf of
\* ndim 0, 1 or 2, and a first leaf of ndim 2 followed by one of ndim 0, 1, 2.
CarryShapes == {<< >>, <<0>>, <<1>>, <<2>>, <<2, 0>>, <<2, 1>>, <<2, 2>>}

\* The run's inputs have the shapes its docstring asks for: one carry leaf
\* [M, microbatch_size, ...], xs [num_layers, M, ...], parameters [num_layers, ...].
ShapesAsDocumented ==
    /\ carry_ndims = <<2>>
    /\ Len0(xs) = num_layers
    /\ Len0(xs[0]) = Len0(carry)
    /\ Len0(state) = num_layers

\* Runs with other shapes are explored for one stage computation and one
\* labelling of the inputs.
Init ==
    /\ num_layers \in 1 .. MaxN
    /\ num_microbatches \in 1 .. MaxM
    /\ fn \in FnKinds
    /\ \E sn \in 1 .. MaxN : state = [i \in Range0(sn) |-> i + 1]
    /\ \E cm \in 1 .. MaxM, cbase \in 0 .. MaxBase :
          carry = Labelled(1, cm, cbase)[0]
    /\ carry_ndims \in CarryShapes
    /\ carry_arg \in {"None", "tree"}
    /\ carry_arg = "None" => carry_ndims = << >>
    /\ \E xn \in 1 .. MaxN, xm \in 1 .. MaxM, xbase \in 0 .. MaxBase :
          xs = Labelled(xn, xm, xbase)
    /\ ~ShapesAsDocumented =>
          /\ fn = "term"
          /\ num_microbatches = Len0(carry)
          /\ carry[0] = Zero
          /\ xs[0][0] = Zero
    /\ pc = "entry"
    /\ raised = ""
    /\ m = 0
    /\ n = 0
    /\ per_stage_inputs = Empty
    /\ padded_xs = Empty
    /\ prng_keys = Empty
    /\ t = 0
    /\ carry_output_t_1 = Empty
    /\ scan_ys = [carry |-> Empty, y |-> Empty, output_collection |-> NoOutputs]
    /\ calls = Empty
    /\ final_carry = Empty
    /\ ys = Empty
    /\ output_collection = [layer |-> NoOutputs, children |-> Empty]
    /\ pending = Empty
    /\ alt = NoAlt
    /\ inputs = Empty
    /\ microbatches = Empty
    /\ merged = Empty

\* entry_check that lets a carry with no leaves pass.
entry_check_leafless(ndims) ==
    IF Len(ndims) # 0 /\ ndims[1] < 2 THEN "entry: Expected leaves to have shape"
    ELSE ""

\* _run, lines 208-215: the outcome of the entry checks on carry_leaves.
entry_check(ndims) ==
    IF Len(ndims) = 0 THEN "entry: Expected at least one input leaf."
    ELSE IF ndims[1] < 2 THEN "entry: Expected leaves to have shape"
    ELSE ""

\* pad_carry on every leaf: jnp.expand_dims(v_carry, 1) raises on a leaf of
\* ndim 0 (axis 1 is out of bounds for the 1-dimensional result).
pad_check(ndims) ==
    IF \E k \in DOMAIN ndims : ndims[k] = 0 THEN "pad_carry: expand_dims" ELSE ""

\* scan_check without the size check of jax.vmap.
scan_check_sizes_only(v_prng_keys, v_padded_xs, v_state, v_vmap_in) ==
    IF Len0(v_prng_keys) # Len0(v_padded_xs) THEN "scan: leading axis sizes"
    ELSE IF Len0(v_state) # num_layers THEN "_is_valid_stage: Leading dim"
    ELSE ""

\* scan_check without the check of _is_valid_stage.
scan_check_no_stage_check(v_prng_keys, v_padded_xs, v_state, v_vmap_in) ==
    IF Len0(v_prng_keys) # Len0(v_padded_xs) THEN "scan: leading axis sizes"
    ELSE IF Cardinality({Len0(v_state), Len0(v_prng_keys[0]), Len0(v_vmap_in),
                         Len0(v_padded_xs[0])}) # 1
         THEN "vmap: inconsistent sizes"
    ELSE ""

\* What jax.lax.scan raises before the first iteration runs: the leaves of
\* xs = (prng_keys, padded_xs) must have one leading-axis size; then scan_fn
\* is traced, where _is_valid_stage compares the parameters' leading
\* dimension with num_stages and jax.vmap needs one size for the mapped axes.
scan_check(v_prng_keys, v_padded_xs, v_state, v_vmap_in) ==
    IF Len0(v_prng_keys) # Len0(v_padded_xs) THEN "scan: leading axis sizes"
    ELSE IF Len0(v_state) # num_layers THEN "_is_valid_stage: Leading dim"
    ELSE IF Cardinality({Len0(v_state), Len0(v_prng_keys[0]), Len0(v_vmap_in),
                         Len0(v_padded_xs[0])}) # 1
         THEN "vmap: inconsistent sizes"
    ELSE ""

\* _run, lines 208-224: the entry checks, the locals m and n, and the
\* replacement of a carry that is None by {}.
Enter ==
    /\ pc = "entry"
    /\ entry_check(carry_ndims) = ""
    /\ m' = Len0(carry)
    /\ n' = num_layers
    /\ carry_arg' = IF carry_arg = "None" THEN "{}" ELSE carry_arg
    /\ pc' = "prepare"
    /\ UNCHANGED <<inputs, microbatches, merged, pending, num_layers, num_microbatches, fn, state, carry, carry_ndims, xs, raised,
                   per_stage_inputs, padded_xs, prng_keys, t, carry_output_t_1,
                   scan_ys, calls, final_carry, ys, output_collection, alt>>

\* _run, lines 208-215: an entry check raises.
EnterReject ==
    /\ pc = "entry"
    /\ entry_check(carry_ndims) # ""
    /\ raised' = entry_check(carry_ndims)
    /\ pc' = "error"
    /\ UNCHANGED <<inputs, microbatches, merged, carry_arg, pending, num_layers, num_microbatches, fn, state, carry, carry_ndims,
                   xs, m, n, per_stage_inputs, padded_xs, prng_keys, t,
                   carry_output_t_1, scan_ys, calls, final_carry, ys, output_collection, alt>>

\* _run, line 254: pad_carry raises on a leaf.
PadReject ==
    /\ pc = "prepare"
    /\ pad_check(carry_ndims) # ""
    /\ raised' = pad_check(carry_ndims)
    /\ pc' = "error"
    /\ UNCHANGED <<inputs, microbatches, merged, carry_arg, pending, num_layers, num_microbatches, fn, state, carry, carry_ndims,
                   xs, m, n, per_stage_inputs, padded_xs, prng_keys, t,
                   carry_output_t_1, scan_ys, calls, final_carry, ys, output_collection, alt>>

\* _run, lines 240-272 and 375-384: the padded carry, the pipeline-major xs,
\* the PRNG keys and the initial loop state.
Prepare ==
    /\ pc = "prepare"
    /\ pad_check(carry_ndims) = ""
    /\ padded_xs' = transpose_to_pipeline_stage_inputs(xs)
    /\ prng_keys' = split_prng_keys(m, n)
    /\ LET s0 == state_t0(n, pad_carry(carry, n))
       IN  /\ t' = s0.t
           /\ carry_output_t_1' = s0.carry_output_t_1
           /\ per_stage_inputs' = s0.per_stage_inputs
           /\ alt' = [alt EXCEPT
                        !.per_stage_inputs = AltPerStageInputs(s0.per_stage_inputs),
                        !.padded_xs =
                            AltPaddedXs(transpose_to_pipeline_stage_inputs(xs), m),
                        !.carry_output_t_1 = [i \in Range0(n) |-> Junk]]
    /\ pc' = "scan"
    /\ UNCHANGED <<inputs, microbatches, merged, carry_arg, pending, num_layers, num_microbatches, fn, state, carry, carry_ndims, xs, raised, m, n,
                   scan_ys, calls, final_carry, ys, output_collection>>

\* _run, line 392: jax.lax.scan raises before any iteration runs.
ScanReject ==
    /\ pc = "scan"
    /\ scan_check(prng_keys, padded_xs, state, carry_output_t_1) # ""
    /\ raised' = scan_check(prng_keys, padded_xs, state, carry_output_t_1)
    /\ pc' = "error"
    /\ UNCHANGED <<inputs, microbatches, merged, carry_arg, pending, num_layers, num_microbatches, fn, state, carry, carry_ndims,
                   xs, m, n, per_stage_inputs, padded_xs, prng_keys, t,
                   carry_output_t_1, scan_ys, calls, final_carry, ys, output_collection, alt>>

\* The effect of one scan iteration on the loop state, the stacked outputs
\* and the history: r is what scan_fn returns in the run, ar in the
\* alternative run, it the index of the iteration.
ScanRecord(r, ar, it) ==
    /\ t' = r.carry_out.t
    /\ carry_output_t_1' = r.carry_out.carry_output_t_1
    /\ per_stage_inputs' = r.carry_out.per_stage_inputs
    /\ scan_ys' =
          [carry |-> Stack(scan_ys.carry, r.ys_t.carry),
           y     |-> Stack(scan_ys.y, r.ys_t.y),
           output_collection |->
               [summaries |->
                    Stack(scan_ys.output_collection.summaries,
                          r.ys_t.output_collection.summaries),
                module_outputs |->
                    Stack(scan_ys.output_collection.module_outputs,
                          r.ys_t.output_collection.module_outputs),
                state_updates |->
                    Stack(scan_ys.output_collection.state_updates,
                          r.ys_t.output_collection.state_updates)]]
    /\ calls' = Stack(calls, [t |-> t,
                              carry_output_t_1 |-> carry_output_t_1,
                              vmap_in |-> r.vmap_in,
                              x_t |-> padded_xs[it],
                              prng_key_t |-> prng_keys[it],
                              state |-> r.state,
                              valid |-> r.valid])
    /\ alt' = [alt EXCEPT
                 !.carry_output_t_1 = AltOut(ar.ys_t.carry, it, m),
                 !.scan_ys = [carry |-> Stack(alt.scan_ys.carry,
                                              AltOut(ar.ys_t.carry, it, m)),
                              y     |-> Stack(alt.scan_ys.y,
                                              AltOut(ar.ys_t.y, it, m))],
                 !.vmap_in = Stack(alt.vmap_in, ar.vmap_in)]

\* One iteration of jax.lax.scan(scan_fn, init=state_t0, xs=(prng_keys, padded_xs)):
\* the iteration index is the number of records stacked so far.
ScanStep ==
    /\ pc = "scan"
    /\ scan_check(prng_keys, padded_xs, state, carry_output_t_1) = ""
    /\ Len0(scan_ys.carry) < Len0(prng_keys)
    /\ LET it  == Len0(scan_ys.carry)
           r   == scan_fn([t |-> t, carry_output_t_1 |-> carry_output_t_1,
                           per_stage_inputs |-> per_stage_inputs],
                          prng_keys[it], padded_xs[it])
           ar  == scan_fn([t |-> t, carry_output_t_1 |-> alt.carry_output_t_1,
                           per_stage_inputs |-> alt.per_stage_inputs],
                          prng_keys[it], alt.padded_xs[it])
       IN  ScanRecord(r, ar, it)
    /\ UNCHANGED <<inputs, microbatches, merged, carry_arg, pending, num_layers, num_microbatches, fn, state, carry, carry_ndims, xs, raised, pc, m, n,
                   padded_xs, prng_keys, final_carry, ys, output_collection>>

\* vmap_stage in which stage i > 0 reads the carry that stage i-1 has
\* produced in this timestep, when stage i-1 has already run.
vmap_stage_chained(i, carry_in, prng_key_t, x_t, v_pending) ==
    LET vmap_in == _compute_carry_input(carry_in.per_stage_inputs,
                                        carry_in.carry_output_t_1, carry_in.t)
        v_state == where_valid(_is_valid_stage(carry_in.t), state)
    IN  vmap_fn(v_state[i].value, prng_key_t[i],
                IF i - 1 \in DOMAIN v_pending THEN v_pending[i - 1].carry
                ELSE vmap_in[i],
                x_t[i])

\* What jax.vmap(vmap_fn) computes for stage i of a timestep: vmap_fn on the
\* i'th slice of each mapped argument.  The outputs v_pending of the stages
\* that have already run in the timestep are not among its arguments.
vmap_stage(i, carry_in, prng_key_t, x_t, v_pending) ==
    LET vmap_in == _compute_carry_input(carry_in.per_stage_inputs,
                                        carry_in.carry_output_t_1, carry_in.t)
        v_state == where_valid(_is_valid_stage(carry_in.t), state)
    IN  vmap_fn(v_state[i].value, prng_key_t[i], vmap_in[i], x_t[i])

\* One stage of the current timestep runs; the stages of a timestep run in
\* any order.
StageStep ==
    /\ pc = "scan"
    /\ scan_check(prng_keys, padded_xs, state, carry_output_t_1) = ""
    /\ Len0(scan_ys.carry) < Len0(prng_keys)
    /\ \E i \in Range0(n) \ DOMAIN pending :
          LET it  == Len0(scan_ys.carry)
              out == vmap_stage(i, [t |-> t, carry_output_t_1 |-> carry_output_t_1,
                                    per_stage_inputs |-> per_stage_inputs],
                                prng_keys[it], padded_xs[it], pending)
          IN  pending' = [k \in DOMAIN pending \cup {i} |->
                            IF k = i THEN out ELSE pending[k]]
    /\ UNCHANGED <<inputs, microbatches, merged, carry_arg, num_layers, num_microbatches, fn, state, carry, carry_ndims, xs,
                   raised, pc, m, n, per_stage_inputs, padded_xs, prng_keys, t,
                   carry_output_t_1, scan_ys, calls, final_carry, ys,
                   output_collection, alt>>

\* All stages of the current timestep have run: scan_fn returns the next loop
\* state and the record of the timestep, built from their outputs.
StepCommit ==
    /\ pc = "scan"
    /\ scan_check(prng_keys, padded_xs, state, carry_output_t_1) = ""
    /\ Len0(scan_ys.carry) < Len0(prng_keys)
    /\ DOMAIN pending = Range0(n)
    /\ LET it  == Len0(scan_ys.carry)
           r0  == scan_fn([t |-> t, carry_output_t_1 |-> carry_output_t_1,
                           per_stage_inputs |-> per_stage_inputs],
                          prng_keys[it], padded_xs[it])
           r   == [r0 EXCEPT
                     !.carry_out.carry_output_t_1 =
                         [i \in Range0(n) |-> pending[i].carry],
                     !.ys_t = [carry |-> [i \in Range0(n) |-> pending[i].carry],
                               y     |-> [i \in Range0(n) |-> pending[i].y],
                               output_collection |-> stack_outputs(pending)]]
           ar  == scan_fn([t |-> t, carry_output_t_1 |-> alt.carry_output_t_1,
                           per_stage_inputs |-> alt.per_stage_inputs],
                          prng_keys[it], alt.padded_xs[it])
       IN  ScanRecord(r, ar, it)
    /\ pending' = Empty
    /\ UNCHANGED <<inputs, microbatches, merged, carry_arg, num_layers, num_microbatches, fn, state, carry, carry_ndims, xs,
                   raised, pc, m, n, padded_xs, prng_keys, final_carry, ys,
                   output_collection>>

\* _run, lines 394-419: the final carry and the layer-major ys.
Extract ==
    /\ pc = "scan"
    /\ scan_check(prng_keys, padded_xs, state, carry_output_t_1) = ""
    /\ Len0(scan_ys.carry) = Len0(prng_keys)
    /\ final_carry' = extract_outputs(scan_ys.carry, n)
    /\ ys' = transpose_from_pipeline_stage_outputs(scan_ys.y)
    /\ alt' = [alt EXCEPT
                 !.final_carry = extract_outputs(alt.scan_ys.carry, n),
                 !.ys = transpose_from_pipeline_stage_outputs(alt.scan_ys.y)]
    /\ pc' = "collect"
    /\ UNCHANGED <<inputs, microbatches, merged, carry_arg, pending, num_layers, num_microbatches, fn, state, carry, carry_ndims, xs, raised, m, n,
                   per_stage_inputs, padded_xs, prng_keys, t, carry_output_t_1,
                   scan_ys, calls, output_collection>>

\* _run, lines 420-447: the layer-major output collection, the child "layer"
\* and the children "layer{i}/microbatch{j}"; the run returns.
Collect ==
    /\ pc = "collect"
    /\ LET layer_output_collection ==
               [summaries |-> transpose_from_pipeline_stage_outputs(
                                  scan_ys.output_collection.summaries),
                module_outputs |-> transpose_from_pipeline_stage_outputs(
                                  scan_ys.output_collection.module_outputs),
                state_updates |-> transpose_from_pipeline_stage_outputs(
                                  scan_ys.output_collection.state_updates)]
       IN  output_collection' =
               [layer |-> [summaries |-> Empty,
                           module_outputs |-> layer_output_collection.module_outputs,
                           state_updates |-> layer_output_collection.state_updates],
                children |-> microbatch_summaries(
                                 layer_output_collection.summaries, n, m)]
    /\ pc' = "done"
    /\ UNCHANGED <<inputs, microbatches, merged, carry_arg, pending, num_layers, num_microbatches, fn, state, carry, carry_ndims,
                   xs, raised, m, n, per_stage_inputs, padded_xs, prng_keys, t,
                   carry_output_t_1, scan_ys, calls, final_carry, ys, alt>>

Next ==
    \/ Enter \/ EnterReject
    \/ Prepare \/ PadReject
    \/ ScanStep \/ ScanReject
    \/ Extract
    \/ Collect

Spec == Init /\ [][Next]_vars

\* _to_microbatches that splits the batch into M contiguous blocks.
_to_microbatches_contiguous(x) ==
    jnp_reshape(x, num_microbatches, Len0(x) \div num_microbatches)

\* _to_microbatches on a leaf of shape [B]: reshape to [-1, M], then
\* transpose to [M, B/M].
_to_microbatches(x) ==
    LET x1 == jnp_reshape(x, Len0(x) \div num_microbatches, num_microbatches)
    IN  jnp_transpose(x1, num_microbatches)

\* jnp.reshape(x, [-1, M]) raises when M does not divide the size of x.
to_microbatches_check(x) ==
    IF Len0(x) % num_microbatches # 0 THEN "reshape: cannot reshape" ELSE ""

\* _from_microbatches on a leaf of shape [M, S]: transpose to [S, M], then
\* reshape to [-1].
_from_microbatches(x) ==
    LET x1 == jnp_transpose(x, Len0(x[0]))
    IN  jnp_flatten(x1, Len0(x))

\* A batch of B labelled elements is split into microbatches and merged
\* back; the run itself stays at its entry.
BatchInit ==
    /\ num_layers = 1
    /\ num_microbatches \in 1 .. MaxM
    /\ fn = "term"
    /\ state = [i \in Range0(1) |-> i + 1]
    /\ carry = Labelled(1, 1, 0)[0]
    /\ carry_ndims = <<2>>
    /\ carry_arg = "tree"
    /\ xs = Labelled(1, 1, 0)
    /\ pc = "entry"
    /\ raised = ""
    /\ m = 0
    /\ n = 0
    /\ per_stage_inputs = Empty
    /\ padded_xs = Empty
    /\ prng_keys = Empty
    /\ t = 0
    /\ carry_output_t_1 = Empty
    /\ scan_ys = [carry |-> Empty, y |-> Empty, output_collection |-> NoOutputs]
    /\ calls = Empty
    /\ final_carry = Empty
    /\ ys = Empty
    /\ output_collection = [layer |-> NoOutputs, children |-> Empty]
    /\ pending = Empty
    /\ alt = NoAlt
    /\ \E b \in 1 .. MaxBatch, base \in 0 .. MaxBase :
          inputs = Labelled(1, b, base)[0]
    /\ microbatches = Empty
    /\ merged = Empty

RunUnchanged ==
    UNCHANGED <<num_layers, num_microbatches, fn, state, carry, carry_ndims,
                carry_arg, xs, pc, m, n, per_stage_inputs, padded_xs, prng_keys,
                t, carry_output_t_1, scan_ys, calls, final_carry, ys,
                output_collection, pending, alt>>

\* _to_microbatches(inputs), lines 517-525.
ToMicrobatches ==
    /\ raised = "" /\ microbatches = Empty
    /\ to_microbatches_check(inputs) = ""
    /\ microbatches' = _to_microbatches(inputs)
    /\ UNCHANGED <<inputs, merged, raised>>
    /\ RunUnchanged

\* _to_microbatches(inputs): the reshape raises.
ToMicrobatchesReject ==
    /\ raised = "" /\ microbatches = Empty
    /\ to_microbatches_check(inputs) # ""
    /\ raised' = to_microbatches_check(inputs)
    /\ UNCHANGED <<inputs, microbatches, merged>>
    /\ RunUnchanged

\* _from_microbatches(microbatches), lines 528-533.
FromMicrobatches ==
    /\ microbatches # Empty /\ merged = Empty
    /\ merged' = _from_microbatches(microbatches)
    /\ UNCHANGED <<inputs, microbatches, raised>>
    /\ RunUnchanged

NextBatches ==
    \/ ToMicrobatches
    \/ ToMicrobatchesReject
    \/ FromMicrobatches

SpecBatches == BatchInit /\ [][NextBatches]_vars

\* The run with the stages of a timestep as separate steps, on inputs of the
\* documented shapes (on which no check of the run raises).
StagesInit == Init /\ ShapesAsDocumented

NextStages ==
    \/ Enter
    \/ Prepare
    \/ StageStep
    \/ StepCommit
    \/ Extract
    \/ Collect

SpecStages == StagesInit /\ [][NextStages]_vars

\* The runs whose termination is checked: one stage computation, one
\* labelling of the inputs, and at most one input whose shape deviates from
\* the documented one.
FairInit ==
    /\ Init
    /\ fn = "term"
    /\ carry[0] = Zero
    /\ xs[0][0] = Zero
    /\ Cardinality({d \in {"carry", "xs", "state"} :
            \/ d = "carry" /\ carry_ndims # <<2>>
            \/ d = "xs" /\ (Len0(xs) # num_layers \/ Len0(xs[0]) # Len0(carry))
            \/ d = "state" /\ Len0(state) # num_layers}) <= 1

\* The loop is a sequential program: every enabled step is eventually taken.
FairSpec == FairInit /\ [][Next]_vars /\ WF_vars(Next)

----------------------------------------------------------------------------
(* The contract of the run and the values it is specified to return.       *)

\* The precondition of run: the leading dimension of carry is the configured
\* number of microbatches M (xs has leading dimensions [N, M] in every run).
Contract == Len0(carry) = num_microbatches

\* The PRNG key of (timestep tt, stage i): the tt*N+i'th of the split keys.
KeyOf(tt, i) == tt * num_layers + i

\* The carry of microbatch j after stages 0..i-1 have been applied to it in
\* order, stage k with its own parameters, its key of timestep k+j and xs[k, j].
RECURSIVE StagesApplied(_, _)
StagesApplied(i, j) ==
    IF i = 0
    THEN carry[j]
    ELSE fn_apply(fn, state[i - 1], KeyOf(i - 1 + j, i - 1),
                  StagesApplied(i - 1, j), xs[i - 1][j]).carry

\* The y that stage i emits for microbatch j.
EmittedY(i, j) ==
    fn_apply(fn, state[i], KeyOf(i + j, i), StagesApplied(i, j), xs[i][j]).y

\* C1: when a run under the contract has returned, the final carry has
\* leading dimension M and, for every microbatch j, final_carry[j] is stage
\* N-1 applied to ... stage 0 applied to (carry0[j], xs[0, j]) ..., xs[N-1, j].
C1_FinalCarryIsComposition ==
    (pc = "done" /\ Contract) =>
        /\ DOMAIN final_carry = Range0(Len0(carry))
        /\ \A j \in Range0(Len0(carry)) :
              final_carry[j] = StagesApplied(num_layers, j)

C1_Witness ==
    /\ pc = "done" /\ Contract /\ fn = "term"
    /\ num_layers = 3 /\ Len0(carry) = 2
    /\ final_carry[1] = StagesApplied(3, 1)
    /\ final_carry[1] # final_carry[0]

\* C2: when a run under the contract has returned, ys has shape [N, M], ys[i, j]
\* is the y recorded for stage i at timestep i+j, which is the y stage i
\* emits for microbatch j; no y of a bubble pair is in ys (in the alternative
\* run every bubble y is Junk and none is in its ys); and with the identity
\* pass-through ys[i, j] is the original microbatch j.
C2_YsAreValidBand ==
    (pc = "done" /\ Contract) =>
        /\ DOMAIN ys = Range0(num_layers)
        /\ \A i \in Range0(num_layers) :
              /\ DOMAIN ys[i] = Range0(Len0(carry))
              /\ \A j \in Range0(Len0(carry)) :
                    /\ ys[i][j] = scan_ys.y[i + j][i]
                    /\ ys[i][j] = EmittedY(i, j)
                    /\ alt.ys[i][j] # Junk
                    /\ fn = "identity" => ys[i][j] = carry[j]

C2_Witness ==
    /\ pc = "done" /\ Contract /\ fn = "identity"
    /\ num_layers = 3 /\ Len0(carry) = 3
    /\ ys[2][1] = carry[1]
    /\ alt.scan_ys.y[0][2] = Junk

\* C3: in every executed timestep t of a run under the contract, stage i is
\* valid iff t = i + j for a microbatch j; a valid stage 0 is fed microbatch
\* t, a valid stage i > 0 is fed the carry that stage i-1 produced at
\* timestep t-1, which is the carry of microbatch t-i after stages 0..i-1;
\* and the x fed to a valid stage i is xs[i, t-i].
C3_Schedule ==
    Contract =>
        \A k \in DOMAIN calls : \A i \in Range0(num_layers) :
            /\ calls[k].valid[i] <=>
                  \E j \in Range0(Len0(carry)) : calls[k].t = i + j
            /\ Cardinality({j \in Range0(Len0(carry)) : calls[k].t = i + j}) <= 1
            /\ calls[k].valid[i] =>
                  /\ calls[k].vmap_in[i] = StagesApplied(i, calls[k].t - i)
                  /\ i = 0 => calls[k].vmap_in[i] = carry[calls[k].t]
                  /\ i > 0 => calls[k].vmap_in[i] = scan_ys.carry[calls[k].t - 1][i - 1]
                  /\ calls[k].x_t[i] = xs[i][calls[k].t - i]

C3_Witness ==
    /\ Contract /\ fn = "term" /\ num_layers = 3 /\ Len0(carry) = 2
    /\ 3 \in DOMAIN calls
    /\ calls[3].valid[2] /\ ~calls[3].valid[1]
    /\ calls[3].vmap_in[2] = scan_ys.carry[2][1]

\* C4: once xs has been re-laid-out, padded_xs has shape [M+N-1, N],
\* padded_xs[i+j, i] = xs[i, j] for every stage i and microbatch j, and
\* padded_xs is zero at every (t, i) outside the band.
C4_ToPipelineDiagonal ==
    pc \in {"scan", "done"} =>
        LET xn == Len0(xs)
            xm == Len0(xs[0])
        IN  /\ DOMAIN padded_xs = Range0(xm + xn - 1)
            /\ \A tt \in Range0(xm + xn - 1) :
                  /\ DOMAIN padded_xs[tt] = Range0(xn)
                  /\ \A i \in Range0(xn) :
                        (i > tt \/ tt - i >= xm) => padded_xs[tt][i] = Zero
            /\ \A i \in Range0(xn) : \A j \in Range0(xm) :
                  padded_xs[i + j][i] = xs[i][j]

C4_Witness ==
    /\ pc = "scan" /\ Len0(xs) = 3 /\ Len0(xs[0]) = 2
    /\ xs[2][1] # Zero /\ padded_xs[3][2] = xs[2][1]
    /\ padded_xs[3][0] = Zero

\* C5: transpose_from_pipeline_stage_outputs(transpose_to_pipeline_stage_
\* inputs(xs)) is xs, shape included: for the padded_xs the run has built,
\* and for the ys of a run whose stage computation emits its x as y.
C5_RoundTrip ==
    /\ pc \in {"scan", "done"} =>
          transpose_from_pipeline_stage_outputs(padded_xs) = xs
    /\ (pc = "done" /\ fn = "echo") => ys = xs

C5_Witness ==
    /\ pc = "done" /\ fn = "echo"
    /\ Len0(xs) = 3 /\ Len0(xs[0]) = 3
    /\ ys = xs /\ ys[2][2] # ys[0][0]

\* The valid (stage, timestep) pairs of the timesteps executed so far.
ValidPairs ==
    {p \in Range0(num_layers) \X DOMAIN calls : calls[p[2]].valid[p[1]]}

\* C6: in a run under the contract the mask computed at timestep t is true
\* for stage i exactly when i <= t and t - i < M; over the whole loop there
\* are exactly N*M valid pairs, the pairs (i, i+j) of the stages i and
\* microbatches j; for N=3, M=2 they are the six pairs of scenario B.
C6_ValidityMask ==
    Contract =>
        /\ \A k \in DOMAIN calls : \A i \in Range0(num_layers) :
              calls[k].valid[i] <=>
                  (i <= calls[k].t /\ calls[k].t - i < Len0(carry))
        /\ pc = "done" =>
              /\ DOMAIN calls = Range0(Len0(carry) + num_layers - 1)
              /\ Cardinality(ValidPairs) = num_layers * Len0(carry)
              /\ ValidPairs = {<<i, i + j>> : i \in Range0(num_layers),
                                              j \in Range0(Len0(carry))}
              /\ (num_layers = 3 /\ Len0(carry) = 2) =>
                    ValidPairs = {<<0, 0>>, <<1, 1>>, <<0, 1>>,
                                  <<2, 2>>, <<1, 2>>, <<2, 3>>}

C6_Witness ==
    /\ pc = "done" /\ Contract /\ num_layers = 3 /\ Len0(carry) = 2
    /\ <<2, 3>> \in ValidPairs /\ <<0, 3>> \notin ValidPairs
    /\ Cardinality(ValidPairs) = 6

\* The shapes with which a run that has passed the entry checks reaches its
\* end: no later carry leaf of ndim 0, xs of leading dimensions [N, M], and
\* parameters of leading dimension N.
ShapesFit ==
    /\ pad_check(carry_ndims) = ""
    /\ Len0(xs) = num_layers
    /\ Len0(xs[0]) = Len0(carry)
    /\ Len0(state) = num_layers

C8_CarryHandOver ==
    /\ (pc = "scan" /\ Len0(calls) = 0) =>
          carry_output_t_1 = [i \in Range0(num_layers) |-> Zero]
    /\ \A k \in DOMAIN calls :
          /\ scan_ys.carry[k] =
                [i \in Range0(num_layers) |->
                    fn_apply(fn, state[i], calls[k].prng_key_t[i],
                             calls[k].vmap_in[i], calls[k].x_t[i]).carry]
          /\ IF k = 0
             THEN calls[k].carry_output_t_1 = [i \in Range0(num_layers) |-> Zero]
             ELSE calls[k].carry_output_t_1 = scan_ys.carry[k - 1]
          /\ k = Len0(calls) - 1 => carry_output_t_1 = scan_ys.carry[k]

C8_Witness ==
    /\ fn = "term" /\ num_layers = 2 /\ Len0(carry) = 3
    /\ 3 \in DOMAIN calls
    /\ calls[3].carry_output_t_1 = scan_ys.carry[2]
    /\ calls[3].carry_output_t_1 # calls[2].carry_output_t_1
    /\ calls[0].carry_output_t_1 = [i \in Range0(2) |-> Zero]

\* C9: in every executed timestep t of a run under the contract, t mod M is
\* an index of the padded carry, the selector gives stage 0
\* per_stage_inputs[t mod M][0] (microbatch t when t < M, microbatch t mod M
\* again when t >= M) and stage k > 0 the previous carry output of stage
\* k-1; the previous carry output of the last stage is fed to no stage.
C9_Selector ==
    Contract =>
        \A k \in DOMAIN calls :
            LET c  == calls[k]
                mm == Len0(carry)
            IN  /\ (c.t % num_microbatches) \in Range0(mm)
                /\ (c.t % num_microbatches) \in DOMAIN per_stage_inputs
                /\ DOMAIN c.vmap_in = Range0(num_layers)
                /\ c.vmap_in[0] = per_stage_inputs[c.t % mm][0]
                /\ c.vmap_in[0] = carry[c.t % mm]
                /\ c.t < mm => c.vmap_in[0] = carry[c.t]
                /\ \A s \in 1 .. (num_layers - 1) :
                      c.vmap_in[s] = c.carry_output_t_1[s - 1]
                /\ \A s \in Range0(num_layers) : Len(c.vmap_in[s]) >= 1
                /\ (fn = "term" /\ c.t > 0) =>
                      \A s \in Range0(num_layers) :
                          c.vmap_in[s] # c.carry_output_t_1[num_layers - 1]

C9_Witness ==
    /\ Contract /\ fn = "term" /\ num_layers = 2 /\ Len0(carry) = 2
    /\ 2 \in DOMAIN calls
    /\ calls[2].vmap_in[0] = carry[0]
    /\ calls[2].vmap_in[1] = calls[2].carry_output_t_1[0]
    /\ calls[2].vmap_in[1] # calls[2].carry_output_t_1[1]

\* C10: bubble invariance.  The alternative run has the same N, M, carry, xs,
\* parameters and keys and holds Junk in every bubble slot (the initial
\* previous carry, the padding of the padded carry, the off-band entries of
\* padded_xs, every output of an invalid pair).  Every valid pair reads the
\* same carry and x in both runs, and both runs return the same final carry
\* and ys.
C10_BubbleInvariance ==
    /\ \A k \in DOMAIN alt.vmap_in : \A i \in Range0(num_layers) :
          InBand(i, k, Len0(carry)) =>
              /\ alt.vmap_in[k][i] = calls[k].vmap_in[i]
              /\ alt.padded_xs[k][i] = calls[k].x_t[i]
    /\ pc = "done" =>
          /\ alt.final_carry = final_carry
          /\ alt.ys = ys

C10_Witness ==
    /\ pc = "done" /\ Contract /\ fn = "term"
    /\ num_layers = 3 /\ Len0(carry) = 2
    /\ alt.scan_ys.carry[0][2] = Junk /\ scan_ys.carry[0][2] # Junk
    /\ alt.vmap_in[1][2] = Junk /\ calls[1].vmap_in[2] # Junk
    /\ alt.padded_xs[3][0] = Junk
    /\ alt.final_carry = final_carry /\ alt.ys = ys

----------------------------------------------------------------------------
(* Input validation.                                                       *)

\* The errors that the entry checks of _run raise.
EntryErrors ==
    {"entry: Expected at least one input leaf.",
     "entry: Expected leaves to have shape"}

\* The carry has no leaf, or a leaf (the first or a later one) of ndim < 2.
BadCarry ==
    Len(carry_ndims) = 0 \/ \E k \in DOMAIN carry_ndims : carry_ndims[k] < 2

\* C11: a run whose carry has no leaves, or has any leaf of ndim < 2, is
\* rejected by the entry checks: it never gets past the entry, and the error
\* it ends with is one of the entry checks, raised before any padding or
\* layout transform.
C11_BadCarryRejectedAtEntry ==
    BadCarry =>
        /\ pc \in {"entry", "error"}
        /\ pc = "error" =>
              /\ raised \in EntryErrors
              /\ per_stage_inputs = Empty
              /\ padded_xs = Empty

\* xs does not have the leading dimensions [num_layers, M] of the run.
XsMismatch == Len0(xs) # num_layers \/ Len0(xs[0]) # Len0(carry)

\* The pipeline-major layout of a layer-major array v, entry by entry, for
\* the leading dimensions of v itself.
IsPipelineMajorOf(p, v) ==
    /\ DOMAIN p = Range0(Len0(v[0]) + Len0(v) - 1)
    /\ \A tt \in DOMAIN p :
          /\ DOMAIN p[tt] = Range0(Len0(v))
          /\ \A i \in DOMAIN p[tt] :
                p[tt][i] = IF InBand(i, tt, Len0(v[0])) THEN v[i][tt - i] ELSE Zero

\* C12 as stated: the layout transform rejects an xs whose leading
\* dimensions are not [num_layers, M], so no run with such an xs holds a
\* re-laid-out xs.
C12_TransformRejects ==
    XsMismatch => padded_xs = Empty

\* C12: the layout transform takes N and M from the array itself and rejects
\* nothing: an xs whose leading dimensions are not [num_layers, M] is re-laid
\* out for its own dimensions.  The run is rejected afterwards, when the scan
\* is entered (by the scan's check of the leading axis sizes, by
\* _is_valid_stage, or by vmap's check of the mapped sizes), before any
\* timestep executes, and it never returns.
C12_MismatchRejectedByScan ==
    XsMismatch =>
        /\ pc \in {"scan", "error"} /\ padded_xs # Empty =>
              IsPipelineMajorOf(padded_xs, xs)
        /\ calls = Empty
        /\ pc \in {"entry", "prepare", "scan", "error"}
        /\ pc = "error" /\ padded_xs # Empty =>
              raised \in {"scan: leading axis sizes",
                          "_is_valid_stage: Leading dim",
                          "vmap: inconsistent sizes"}
        /\ (pc = "scan" /\ Len0(padded_xs) = Len0(prng_keys)
                /\ Len0(state) = num_layers) =>
              scan_check(prng_keys, padded_xs, state, carry_output_t_1)
                  = "vmap: inconsistent sizes"

C12_Witness ==
    /\ XsMismatch
    /\ pc = "error" /\ raised = "vmap: inconsistent sizes"
    /\ num_layers = 2 /\ Len0(carry) = 2 /\ Len0(xs) = 1 /\ Len0(xs[0]) = 3
    /\ IsPipelineMajorOf(padded_xs, xs)

\* The stacked parameters do not have leading dimension num_layers.
StateMismatch == Len0(state) # num_layers

\* C13 as stated: a parameter stack whose leading dimension is not N is
\* rejected at the entry of the loop, before the carry is padded and before
\* xs is re-laid out.
C13_StateRejectedAtEntry ==
    StateMismatch =>
        /\ pc \in {"entry", "error"}
        /\ per_stage_inputs = Empty
        /\ padded_xs = Empty

\* C13: a parameter stack whose leading dimension is not N passes the entry
\* checks, the padding of the carry and the re-layout of xs.  It is rejected
\* by _is_valid_stage inside the per-timestep transition, when the scan
\* traces it, before any timestep executes; the run never returns.
C13_StateRejectedInTransition ==
    StateMismatch =>
        /\ calls = Empty
        /\ pc \in {"entry", "prepare", "scan", "error"}
        /\ raised = "_is_valid_stage: Leading dim" =>
              /\ pc = "error"
              /\ per_stage_inputs = pad_carry(carry, num_layers)
              /\ padded_xs = transpose_to_pipeline_stage_inputs(xs)
        /\ (pc = "error" /\ entry_check(carry_ndims) = ""
                /\ pad_check(carry_ndims) = ""
                /\ Len0(padded_xs) = Len0(prng_keys)) =>
              raised = "_is_valid_stage: Leading dim"

C13_Witness ==
    /\ StateMismatch /\ ~XsMismatch /\ carry_ndims = <<2>>
    /\ num_layers = 3 /\ Len0(state) = 2
    /\ pc = "error" /\ raised = "_is_valid_stage: Leading dim"
    /\ per_stage_inputs = pad_carry(carry, 3)
    /\ Len0(padded_xs) = Len0(carry) + 2

\* C14 as stated: the final carry is the slice of the stacked carries at
\* stage N-1 and the final timestep M+N-2 only.
C14_FinalTimestepOnly ==
    pc \in {"collect", "done"} =>
        /\ DOMAIN final_carry = Range0(1)
        /\ final_carry[0] = scan_ys.carry[Len0(carry) + num_layers - 2][num_layers - 1]

\* C14: the final carry is the slice of the stacked carries at stage N-1 and
\* the timesteps N-1 .. M+N-2, with the singleton stage axis squeezed: it has
\* leading dimension M, its entry j is the carry recorded for stage N-1 at
\* timestep N-1+j, and its last entry is the one of the final timestep; under
\* the contract entry j is stage N-1's carry after microbatch j.
C14_FinalCarrySlice ==
    pc \in {"collect", "done"} =>
        /\ DOMAIN final_carry = Range0(Len0(carry))
        /\ \A j \in Range0(Len0(carry)) :
              /\ final_carry[j] = scan_ys.carry[num_layers - 1 + j][num_layers - 1]
              /\ Contract => final_carry[j] = StagesApplied(num_layers, j)
        /\ final_carry[Len0(carry) - 1] =
              scan_ys.carry[Len0(carry) + num_layers - 2][num_layers - 1]

C14_Witness ==
    /\ pc = "done" /\ Contract /\ fn = "term"
    /\ num_layers = 2 /\ Len0(carry) = 3
    /\ Len0(final_carry) = 3
    /\ final_carry[0] = scan_ys.carry[1][1]
    /\ final_carry[2] = scan_ys.carry[3][1]
    /\ final_carry[0] # final_carry[2]

----------------------------------------------------------------------------
(* The output collection, the degenerate pipeline, the inverse transform   *)
(* and the stage invocations.                                              *)

\* The output collection that stage i emits for microbatch j.
EmittedOutputs(i, j) ==
    fn_outputs(state[i], KeyOf(i + j, i), StagesApplied(i, j), xs[i][j])

\* The (timestep, stage) pairs of the run that carry no microbatch.
BubblePairs ==
    {q \in (DOMAIN scan_ys.output_collection.summaries) \X Range0(num_layers) :
        ~InBand(q[2], q[1], Len0(carry))}

\* C15: when a run under the contract has returned, the output collection has
\* exactly N*M children "layer{i}/microbatch{j}", one for every stage i and
\* microbatch j; the summaries of child (i, j) are the summaries recorded for
\* stage i at timestep i+j, which are the ones stage i emits for microbatch
\* j; no child holds the summaries of a bubble pair; and the module outputs
\* and state updates under "layer" are in [N, M] layout, entry (i, j) being
\* the record of stage i at timestep i+j.
C15_PerMicrobatchChildren ==
    (pc = "done" /\ Contract) =>
        /\ DOMAIN output_collection.children
              = Range0(num_layers) \X Range0(num_microbatches)
        /\ Cardinality(DOMAIN output_collection.children)
              = num_layers * num_microbatches
        /\ \A p \in DOMAIN output_collection.children :
              /\ output_collection.children[p]
                    = scan_ys.output_collection.summaries[p[1] + p[2]][p[1]]
              /\ output_collection.children[p]
                    = EmittedOutputs(p[1], p[2]).summaries
              /\ \A q \in BubblePairs :
                    output_collection.children[p]
                        # scan_ys.output_collection.summaries[q[1]][q[2]]
        /\ DOMAIN output_collection.layer.module_outputs = Range0(num_layers)
        /\ DOMAIN output_collection.layer.state_updates = Range0(num_layers)
        /\ \A i \in Range0(num_layers) :
              /\ DOMAIN output_collection.layer.module_outputs[i]
                    = Range0(num_microbatches)
              /\ DOMAIN output_collection.layer.state_updates[i]
                    = Range0(num_microbatches)
              /\ \A j \in Range0(num_microbatches) :
                    /\ output_collection.layer.module_outputs[i][j]
                          = scan_ys.output_collection.module_outputs[i + j][i]
                    /\ output_collection.layer.module_outputs[i][j]
                          = EmittedOutputs(i, j).module_outputs
                    /\ output_collection.layer.state_updates[i][j]
                          = scan_ys.output_collection.state_updates[i + j][i]
                    /\ output_collection.layer.state_updates[i][j]
                          = EmittedOutputs(i, j).state_updates

C15_Witness ==
    /\ pc = "done" /\ Contract /\ fn = "term"
    /\ num_layers = 2 /\ num_microbatches = 3
    /\ Cardinality(DOMAIN output_collection.children) = 6
    /\ output_collection.children[<<1, 2>>] = EmittedOutputs(1, 2).summaries
    /\ output_collection.children[<<1, 2>>] # output_collection.children[<<1, 1>>]
    /\ BubblePairs # {}
    /\ output_collection.layer.state_updates[1][0]
          = scan_ys.output_collection.state_updates[1][1]

\* C16: with N = 1 and M = 1 the loop executes exactly one step, in which
\* stage 0 is valid, and the returned final carry and ys are the carry and y
\* of one application of the stage computation to (carry0[0], xs[0, 0]).
C16_SingleStageSingleMicrobatch ==
    (num_layers = 1 /\ num_microbatches = 1 /\ Contract) =>
        /\ Len0(calls) <= 1
        /\ \A k \in DOMAIN calls :
              /\ calls[k].t = 0
              /\ calls[k].valid = [i \in Range0(1) |-> TRUE]
        /\ pc \in {"collect", "done"} =>
              /\ Len0(calls) = 1
              /\ t = 1
              /\ final_carry =
                    [j \in Range0(1) |->
                        fn_apply(fn, state[0], 0, carry[0], xs[0][0]).carry]
              /\ ys = [i \in Range0(1) |-> [j \in Range0(1) |->
                        fn_apply(fn, state[0], 0, carry[0], xs[0][0]).y]]

C16_Witness ==
    /\ num_layers = 1 /\ num_microbatches = 1 /\ Contract
    /\ pc = "done" /\ fn = "term"
    /\ Len0(calls) = 1 /\ calls[0].valid[0]
    /\ final_carry[0] = fn_apply("term", state[0], 0, carry[0], xs[0][0]).carry
    /\ final_carry[0] # carry[0]

\* The pipeline-major arrays of the run: the stacked records of the original
\* and of the alternative run, as soon as they have at least N rows.
PipelineMajorArrays ==
    {x \in {scan_ys.carry, scan_ys.y, alt.scan_ys.carry, alt.scan_ys.y,
            scan_ys.output_collection.summaries, padded_xs} :
        Len0(x) >= 1 /\ Len0(x) >= Len0(x[0])}

\* C17: for every pipeline-major array x of shape [M+N-1, N], whatever
\* produced it, transpose_from_pipeline_stage_outputs(x) has shape [N, M]
\* and its entry (i, j) is x[i+j, i]; the result is the same for the array
\* that holds Junk in every entry outside the valid band.
C17_FromPipelineDiagonal ==
    \A x \in PipelineMajorArrays :
        LET xn == Len0(x[0])
            xm == Len0(x) - xn + 1
            r  == transpose_from_pipeline_stage_outputs(x)
        IN  /\ DOMAIN r = Range0(xn)
            /\ \A i \in Range0(xn) :
                  /\ DOMAIN r[i] = Range0(xm)
                  /\ \A j \in Range0(xm) : r[i][j] = x[i + j][i]
            /\ transpose_from_pipeline_stage_outputs(AltPaddedXs(x, xm)) = r

C17_Witness ==
    /\ pc = "scan" /\ num_layers = 3 /\ Len0(scan_ys.y) = 4
    /\ scan_ys.y \in PipelineMajorArrays
    /\ transpose_from_pipeline_stage_outputs(scan_ys.y)[2][1] = scan_ys.y[3][2]
    /\ AltPaddedXs(scan_ys.y, 2) # scan_ys.y
    /\ scan_ys.y[0][2] # Junk

\* The (timestep, stage) pairs for which the stage computation has run.
Invocations ==
    {q \in (DOMAIN calls) \X Range0(MaxN + 1) : q[2] \in DOMAIN scan_ys.carry[q[1]]}

\* C18: every executed timestep invokes the stage computation for all N
\* stages, valid or not: the record of the timestep holds, for every stage,
\* the carry and y of the stage computation on that stage's inputs, and the
\* next carry state holds the same carries.  The parameters that a stage is
\* given have the value of its parameters, detached by stop-gradient exactly
\* when the stage is invalid.  A returned run under the contract has made
\* N*(M+N-1) invocations, N*M of them valid.
C18_AllStagesInvoked ==
    /\ \A k \in DOMAIN calls :
          /\ DOMAIN scan_ys.carry[k] = Range0(num_layers)
          /\ DOMAIN scan_ys.y[k] = Range0(num_layers)
          /\ \A i \in Range0(num_layers) :
                LET o == fn_apply(fn, state[i], calls[k].prng_key_t[i],
                                  calls[k].vmap_in[i], calls[k].x_t[i])
                IN  /\ scan_ys.carry[k][i] = o.carry
                    /\ scan_ys.y[k][i] = o.y
                    /\ calls[k].state[i].value = state[i]
                    /\ calls[k].state[i].stop_gradient = ~calls[k].valid[i]
                    /\ k + 1 \in DOMAIN calls =>
                          calls[k + 1].carry_output_t_1[i] = o.carry
                    /\ k + 1 = Len0(calls) /\ pc = "scan" =>
                          carry_output_t_1[i] = o.carry
    /\ (pc = "done" /\ Contract) =>
          /\ Cardinality(Invocations)
                = num_layers * (num_microbatches + num_layers - 1)
          /\ Cardinality({q \in Invocations : calls[q[1]].valid[q[2]]})
                = num_layers * num_microbatches

C18_Witness ==
    /\ pc = "done" /\ Contract /\ fn = "term"
    /\ num_layers = 3 /\ num_microbatches = 2
    /\ Cardinality(Invocations) = 12
    /\ ~calls[0].valid[2] /\ calls[0].state[2].stop_gradient
    /\ scan_ys.carry[0][2] = fn_apply("term", state[2], 2, Zero, Zero).carry
    /\ calls[1].carry_output_t_1[2] = scan_ys.carry[0][2]
    /\ calls[1].valid[1] /\ ~calls[1].state[1].stop_gradient

----------------------------------------------------------------------------
(* Independence of the stages of a timestep, and the frame of a            *)
(* transition.                                                             *)

\* What scan_fn returns for the k'th executed timestep, computed from what
\* that timestep read.
ScanFnOf(k) ==
    scan_fn([t |-> calls[k].t,
             carry_output_t_1 |-> calls[k].carry_output_t_1,
             per_stage_inputs |-> per_stage_inputs],
            calls[k].prng_key_t, calls[k].x_t)

\* C19: with the N stages of a timestep run one at a time in any order, the
\* output of stage i is the stage computation on stage i's parameters, the
\* key of (t, i), the input selected for stage i from the previous
\* timestep's carry and the padded carry, and the xs entry of (t, i),
\* whichever other stages have already run in the timestep; every order
\* yields the carry_out and the record that scan_fn computes from the
\* timestep's inputs, and the same returned final carry and ys.
C19_StagesIndependent ==
    /\ \A i \in DOMAIN pending :
          LET it == Len0(scan_ys.carry)
          IN  pending[i] =
                  vmap_fn(state[i], prng_keys[it][i],
                          _compute_carry_input(per_stage_inputs,
                                               carry_output_t_1, t)[i],
                          padded_xs[it][i])
    /\ \A k \in DOMAIN calls :
          /\ scan_ys.carry[k] = ScanFnOf(k).ys_t.carry
          /\ scan_ys.y[k] = ScanFnOf(k).ys_t.y
          /\ scan_ys.output_collection.summaries[k]
                = ScanFnOf(k).ys_t.output_collection.summaries
          /\ k + 1 \in DOMAIN calls =>
                calls[k + 1].carry_output_t_1
                    = ScanFnOf(k).carry_out.carry_output_t_1
          /\ k + 1 = Len0(calls) /\ pc = "scan" =>
                carry_output_t_1 = ScanFnOf(k).carry_out.carry_output_t_1
    /\ (pc = "done" /\ Contract) =>
          \A j \in Range0(Len0(carry)) :
              /\ final_carry[j] = StagesApplied(num_layers, j)
              /\ \A i \in Range0(num_layers) : ys[i][j] = EmittedY(i, j)

C19_Witness ==
    /\ pc = "scan" /\ fn = "term" /\ Contract
    /\ num_layers = 3 /\ Len0(carry) = 2 /\ t = 2
    /\ DOMAIN pending = {0, 2}
    /\ pending[2].carry
          = fn_apply("term", state[2], KeyOf(2, 2), scan_ys.carry[1][1], xs[2][0]).carry
    /\ pending[0].carry # scan_ys.carry[1][0]

\* The padded initial carry: column 0 holds the microbatches, the other
\* columns hold zeros.
PaddedCarry ==
    [j \in Range0(Len0(carry)) |->
        [k \in Range0(num_layers) |-> IF k = 0 THEN carry[j] ELSE Zero]]

\* C20: every timestep transition starts with per_stage_inputs equal to the
\* padded initial carry and leaves it unchanged, leaves the stage parameters
\* unchanged, and changes of the loop state only t, which it increases by
\* one, and carry_output_t_1.
C20_TransitionFrame ==
    [][(pc = "scan" /\ calls' # calls) =>
          /\ per_stage_inputs = PaddedCarry
          /\ per_stage_inputs' = per_stage_inputs
          /\ state' = state
          /\ t' = t + 1
          /\ DOMAIN carry_output_t_1' = DOMAIN carry_output_t_1
          /\ \A k \in DOMAIN calls' : \A i \in DOMAIN state :
                calls'[k].state[i].value = state[i]]_vars

C20_Witness ==
    /\ pc = "scan" /\ t = 3 /\ num_layers = 2 /\ Len0(carry) = 3
    /\ per_stage_inputs = PaddedCarry
    /\ per_stage_inputs[2][0] = carry[2] /\ carry[2] # Zero
    /\ per_stage_inputs[2][1] = Zero
    /\ carry_output_t_1 # state_t0(2, per_stage_inputs).carry_output_t_1

----------------------------------------------------------------------------
(* The number of microbatches of a run.                                    *)

\* The M that gives a run its number of loop steps, M+N-1: the local m,
\* taken from the leading dimension of the carry.
StepsM == Len0(prng_keys) - n + 1

\* C21: in every run that executes timesteps, the M of the number of loop
\* steps (local m, from the carry) is the M of the selector's index t mod M
\* and of the mask's bound t - stage < M (cfg.num_microbatches): every
\* executed timestep feeds stage 0 the microbatch t mod StepsM and has stage
\* i valid iff i <= t and t - i < StepsM.
C21_OneMicrobatchCount ==
    calls # Empty =>
        /\ StepsM = m
        /\ m = num_microbatches
        /\ \A k \in DOMAIN calls :
              /\ calls[k].vmap_in[0] = per_stage_inputs[calls[k].t % StepsM][0]
              /\ calls[k].valid =
                    [i \in Range0(num_layers) |->
                        i <= calls[k].t /\ calls[k].t - i < StepsM]

----------------------------------------------------------------------------
(* A carry that is omitted or has no leaves.                               *)

\* C22: a run whose carry is None or has no array leaves ends at the entry
\* with 'Expected at least one input leaf.', before m and n are set, the
\* carry is padded or xs is re-laid out; no run replaces a None carry by {},
\* and no run executes timesteps with a carry without leaves.
C22_LeaflessCarryRejected ==
    /\ Len(carry_ndims) = 0 =>
          /\ pc \in {"entry", "error"}
          /\ pc = "error" => raised = "entry: Expected at least one input leaf."
          /\ m = 0 /\ n = 0
          /\ per_stage_inputs = Empty /\ padded_xs = Empty /\ prng_keys = Empty
          /\ calls = Empty
    /\ carry_arg = "None" => Len(carry_ndims) = 0
    /\ carry_arg # "{}"

C22_Witness ==
    /\ carry_arg = "None"
    /\ pc = "error"
    /\ raised = "entry: Expected at least one input leaf."
    /\ calls = Empty

----------------------------------------------------------------------------
(* Splitting a batch into microbatches and merging it back.                *)

\* C23: _to_microbatches accepts a batch exactly when its size B is a
\* multiple of M; it returns M microbatches of size B/M in which batch
\* element b is at position b div M of microbatch b mod M; and
\* _from_microbatches of the result is the batch.
C23_MicrobatchRoundTrip ==
    LET b_size == Len0(inputs)
    IN  /\ raised # "" => b_size % num_microbatches # 0
        /\ microbatches # Empty =>
              /\ b_size % num_microbatches = 0
              /\ DOMAIN microbatches = Range0(num_microbatches)
              /\ \A j \in Range0(num_microbatches) :
                    DOMAIN microbatches[j] = Range0(b_size \div num_microbatches)
              /\ \A b \in Range0(b_size) :
                    microbatches[b % num_microbatches][b \div num_microbatches]
                        = inputs[b]
        /\ merged # Empty => merged = inputs

C23_Witness ==
    /\ num_microbatches = 3 /\ Len0(inputs) = 6
    /\ merged = inputs
    /\ microbatches[1][1] = inputs[4]
    /\ microbatches[0][1] = inputs[3]
    /\ microbatches[0][1] # inputs[1]

====
